---------------------------- MODULE Spec2Model ----------------------------
(***************************************************************************)
(* Model of the AMS mini-application evaluation core:                      *)
(*   - DataHandler::pack / unpack (predicate and index variants) and       *)
(*     computePartitionSize            (src/src/wf/data_handler.hpp)       *)
(*   - MiniApp::evaluate_inner, MiniApp::evaluate and                      *)
(*     MiniApp::evaluate_orig          (src/unnamed/part_000)              *)
(* Buffers are sequences; C index i is sequence index i + 1.               *)
(***************************************************************************)
EXTENDS Integers, Sequences, FiniteSets, TLC

(***************************************************************************)
(* Bounds of the model.                                                    *)
(***************************************************************************)
\* longest predicate handed to pack/unpack by the pack/unpack driver
MaxLen == 3
\* largest number of feature vectors handed to pack/unpack by the driver
MaxDims == 2

\* content of a buffer cell that was allocated and never written: a token for
\* the indeterminate value, distinct from every value the program computes,
\* so that no equality with a computed value is guaranteed for such a cell
Uninit == 0 - 1

(***************************************************************************)
(* DataHandler::pack, predicate variant (host path).                       *)
(***************************************************************************)
\* as PackCopy, reading the sparse column at the packed position
PackCopy_readsPacked(sparse, dense, i, npacked) ==
    [j \in DOMAIN dense |->
        [dense[j] EXCEPT ![npacked + 1] = sparse[j][npacked + 1]]]

\* for (j < dims) dense[j][npacked] = sparse[j][i];
PackCopy(sparse, dense, i, npacked) ==
    [j \in DOMAIN dense |-> [dense[j] EXCEPT ![npacked + 1] = sparse[j][i + 1]]]

RECURSIVE PackLoop(_, _, _, _, _, _, _)
\* for (i = 0; i < n; i++) if (predicate[i] == denseVal) { copy; npacked++; }
PackLoop(predicate, n, sparse, dense, denseVal, i, npacked) ==
    IF i >= n
    THEN [npacked |-> npacked, dense |-> dense]
    ELSE IF predicate[i + 1] = denseVal
         THEN PackLoop(predicate, n, sparse,
                       PackCopy(sparse, dense, i, npacked),
                       denseVal, i + 1, npacked + 1)
         ELSE PackLoop(predicate, n, sparse, dense, denseVal, i + 1, npacked)
\* as Pack, testing the sizes after the first feature has been packed
Pack_throwsLate(predicate, n, sparse, dense, denseVal) ==
    IF Len(sparse) # Len(dense)
    THEN LET r == PackLoop(predicate, n, <<sparse[1]>>, <<dense[1]>>,
                           denseVal, 0, 0)
         IN  [err |-> TRUE, npacked |-> 0,
              dense |-> [dense EXCEPT ![1] = r.dense[1]]]
    ELSE LET r == PackLoop(predicate, n, sparse, dense, denseVal, 0, 0)
         IN  [err |-> FALSE, npacked |-> r.npacked, dense |-> r.dense]

\* size_t pack(predicate, n, sparse, dense, denseVal): throws on a size mismatch
Pack(predicate, n, sparse, dense, denseVal) ==
    IF Len(sparse) # Len(dense)
    THEN [err |-> TRUE, npacked |-> 0, dense |-> dense]
    ELSE LET r == PackLoop(predicate, n, sparse, dense, denseVal, 0, 0)
         IN  [err |-> FALSE, npacked |-> r.npacked, dense |-> r.dense]

(***************************************************************************)
(* DataHandler::unpack, predicate variant (host path).                     *)
(***************************************************************************)
\* as UnpackCopy, reading the dense column at the sparse position
UnpackCopy_readsSparsePos(dense, sparse, i, npacked) ==
    [j \in DOMAIN sparse |->
        [sparse[j] EXCEPT ![i + 1] =
            IF i + 1 \in DOMAIN dense[j] THEN dense[j][i + 1] ELSE Uninit]]

\* for (j < dims) sparse[j][i] = dense[j][npacked];
UnpackCopy(dense, sparse, i, npacked) ==
    [j \in DOMAIN sparse |-> [sparse[j] EXCEPT ![i + 1] = dense[j][npacked + 1]]]

RECURSIVE UnpackLoop(_, _, _, _, _, _, _)
\* for (i = 0; i < n; i++) if (predicate[i] == denseVal) { copy; npacked++; }
UnpackLoop(predicate, n, dense, sparse, denseVal, i, npacked) ==
    IF i >= n
    THEN sparse
    ELSE IF predicate[i + 1] = denseVal
         THEN UnpackLoop(predicate, n, dense,
                         UnpackCopy(dense, sparse, i, npacked),
                         denseVal, i + 1, npacked + 1)
         ELSE UnpackLoop(predicate, n, dense, sparse, denseVal, i + 1, npacked)

\* void unpack(predicate, n, dense, sparse, denseVal): throws on a size mismatch
Unpack(predicate, n, dense, sparse, denseVal) ==
    IF Len(sparse) # Len(dense)
    THEN [err |-> TRUE, sparse |-> sparse]
    ELSE [err |-> FALSE,
          sparse |-> UnpackLoop(predicate, n, dense, sparse, denseVal, 0, 0)]

(***************************************************************************)
(* DataHandler::pack, index variant (host path).                           *)
(***************************************************************************)
RECURSIVE PackIdxLoop(_, _, _, _, _, _, _, _)
\* as PackLoop, with sparse_indices[npacked++] = i
PackIdxLoop(predicate, sparse_indices, n, sparse, dense, denseVal, i, npacked) ==
    IF i >= n
    THEN [npacked |-> npacked, dense |-> dense, sparse_indices |-> sparse_indices]
    ELSE IF predicate[i + 1] = denseVal
         THEN PackIdxLoop(predicate,
                          [sparse_indices EXCEPT ![npacked + 1] = i],
                          n, sparse, PackCopy(sparse, dense, i, npacked),
                          denseVal, i + 1, npacked + 1)
         ELSE PackIdxLoop(predicate, sparse_indices, n, sparse, dense,
                          denseVal, i + 1, npacked)

\* size_t pack(predicate, sparse_indices, n, sparse, dense, denseVal)
PackIdx(predicate, sparse_indices, n, sparse, dense, denseVal) ==
    IF Len(sparse) # Len(dense)
    THEN [err |-> TRUE, npacked |-> 0, dense |-> dense,
          sparse_indices |-> sparse_indices]
    ELSE LET r == PackIdxLoop(predicate, sparse_indices, n, sparse, dense,
                              denseVal, 0, 0)
         IN  [err |-> FALSE, npacked |-> r.npacked, dense |-> r.dense,
              sparse_indices |-> r.sparse_indices]

(***************************************************************************)
(* DataHandler::unpack, index variant (host path).                         *)
(***************************************************************************)
\* as UnpackIdxCopy, writing the sparse column at the packed position
UnpackIdxCopy_writesPackedPos(sparse_indices, dense, sparse, i) ==
    [j \in DOMAIN sparse |-> [sparse[j] EXCEPT ![i + 1] = dense[j][i + 1]]]

\* for (j < dims) sparse[j][sparse_indices[i]] = dense[j][i];
UnpackIdxCopy(sparse_indices, dense, sparse, i) ==
    [j \in DOMAIN sparse |->
        [sparse[j] EXCEPT ![sparse_indices[i + 1] + 1] = dense[j][i + 1]]]

RECURSIVE UnpackIdxLoop(_, _, _, _, _)
\* for (i = 0; i < nPacked; i++) copy
UnpackIdxLoop(sparse_indices, nPacked, dense, sparse, i) ==
    IF i >= nPacked
    THEN sparse
    ELSE UnpackIdxLoop(sparse_indices, nPacked, dense,
                       UnpackIdxCopy(sparse_indices, dense, sparse, i), i + 1)

\* void unpack(sparse_indices, nPacked, dense, sparse, denseVal)
UnpackIdx(sparse_indices, nPacked, dense, sparse, denseVal) ==
    IF Len(sparse) # Len(dense)
    THEN [err |-> TRUE, sparse |-> sparse]
    ELSE [err |-> FALSE,
          sparse |-> UnpackIdxLoop(sparse_indices, nPacked, dense, sparse, 0)]

(***************************************************************************)
(* DataHandler::computePartitionSize.                                      *)
(***************************************************************************)
\* sizeof(TypeValue), TypeValue = double
SizeofTypeValue == 8
\* sizeof(int)
SizeofInt == 4
\* number of input feature vectors of evaluate_inner (density, energy)
NumInputs == 2
\* number of output feature vectors (pressure, soundspeed2, bulkmod, temperature)
NumOutputs == 4

\* as computePartitionSize, dividing the budget by the bytes of one feature
computePartitionSize_perFeature(numIFeatures, numOFeatures, includeReIndex, pSize) ==
    pSize \div SizeofTypeValue

\* int computePartitionSize(numIFeatures, numOFeatures, includeReIndex, pSize)
computePartitionSize(numIFeatures, numOFeatures, includeReIndex, pSize) ==
    LET singleElementBytes == SizeofTypeValue * (numIFeatures + numOFeatures)
    IN  IF includeReIndex
        THEN pSize \div (singleElementBytes + SizeofInt)
        ELSE pSize \div singleElementBytes

(***************************************************************************)
(* Bounds of the mesh and of the partition budget.                         *)
(***************************************************************************)
\* largest number of samples num_mats * num_elems * num_qpts of a mesh
MaxSamples == 4
\* largest number of elements num_elems of a mesh
MaxElems == 3
\* largest number of materials of a mesh: a mesh of several materials
\* keeps at least two samples for each
MaxMats == MaxSamples \div 2

\* values of the global partitionSize: budgets of 0, 1 and 2 samples
Budgets == {20, 72, 124}

(***************************************************************************)
(* Values.  Every sample of the input tensors holds a value of its own.    *)
(***************************************************************************)
\* density and energy of sample number g of the mesh
DensityOf(g) == 100 + g
EnergyOf(g) == 200 + g

\* initial content of output tensor f at sample number g
PriorOf(f, g) == 30000 + 1000 * f + g

\* output f of the physics EOS for one sample (EOS::Eval argument order)
Phys(f, energy, density) == 10000 + 1000 * f + 10 * (density - 100) + (energy - 200)

\* output f of the surrogate for one sample (inputs in the order density, energy)
Surr(f, density, energy) == 20000 + 1000 * f + 10 * (density - 100) + (energy - 200)

Min(a, b) == IF a < b THEN a ELSE b

\* &buf[pId]: the buffer seen from offset pId
View(buf, pId) == SubSeq(buf, pId + 1, Len(buf))

\* the buffer after writes through &buf[pId] left `view` behind
Splice(buf, pId, view) == SubSeq(buf, 1, pId) \o view

\* n freshly allocated cells
Fresh(n) == [i \in 1..n |-> Uninit]

(***************************************************************************)
(* Collaborators.                                                          *)
(***************************************************************************)
\* EOS::Eval(n, energy, density, outputs...): writes the first n cells of
\* each packed output buffer
EOSEval(n, energy, density, outputs) ==
    [f \in DOMAIN outputs |->
        [j \in DOMAIN outputs[f] |->
            IF j <= n THEN Phys(f, energy[j], density[j]) ELSE outputs[f][j]]]

\* SurrogateModel::Eval(n, inputs, outputs): writes the first n cells of
\* each output buffer handed to it
SurrogateEval(n, inputs, outputs) ==
    [f \in DOMAIN outputs |->
        [j \in DOMAIN outputs[f] |->
            IF j <= n THEN Surr(f, inputs[1][j], inputs[2][j]) ELSE outputs[f][j]]]

(***************************************************************************)
(* State.                                                                  *)
(***************************************************************************)
VARIABLES
    ph,          \* the pack/unpack driver: one predicate, one set of sparse
                 \* buffers, both variants applied to them in turn
    app,         \* the MiniApp object: num_mats, num_elems, num_qpts, is_cpu,
                 \* pack_sparse_mats, eoses, hdcaches, surrogates
    partitionSize, \* the global budget computePartitionSize defaults to
    tens,        \* arguments of evaluate: density, energy (input tensors),
                 \* sparse_elem_indices, out (the four output tensors)
    pc,          \* position of the evaluate call
    ev,          \* locals of evaluate
    inr,         \* parameters and locals of evaluate_inner
    live,        \* number of AMS::utilities allocations not yet deallocated
    hist,        \* history: writes made to each output tensor cell, the
                 \* predicate, path and evaluate_inner calls of each material,
                 \* the collaborators called for it, the records stored
    orig         \* an evaluate_orig call with the arguments of the evaluate
                 \* call: its position, its locals and its output tensors

vars == <<ph, app, partitionSize, tens, pc, ev, inr, live, hist, orig>>

appVars == <<app, partitionSize, tens, pc, ev, inr, live, hist, orig>>

\* sparse buffers of the driver: dims vectors of n pairwise distinct values
SparseOf(dims, n, b) ==
    [d \in 1..dims |-> [i \in 1..n |-> 100 * d + 10 * i + b[i]]]

\* target buffers of the unpack: values no sparse buffer holds
TargetOf(dims, n) == [d \in 1..dims |-> [i \in 1..n |-> 900 + 10 * d + i]]

\* freshly allocated buffers
FreshOf(dims, n) == [d \in 1..dims |-> [i \in 1..n |-> Uninit]]

PackInit ==
    /\ app = [num_mats |-> 0]
    /\ partitionSize = 0
    /\ tens = <<>>
    /\ pc = "idle"
    /\ ev = <<>>
    /\ inr = <<>>
    /\ live = 0
    /\ orig = <<>>
    /\ hist = <<>>
    /\ \E n \in 0..MaxLen, sd \in 1..MaxDims, dd \in 1..MaxDims, dv \in BOOLEAN :
      \E P \in [1..n -> BOOLEAN], b \in [1..n -> {0, 1}] :
        ph = [pc |-> "start", n |-> n, P |-> P, denseVal |-> dv,
              sparse |-> SparseOf(sd, n, b), target |-> TargetOf(sd, n),
              dense1 |-> FreshOf(dd, n), np1 |-> 0, out1 |-> TargetOf(sd, n),
              dense2 |-> FreshOf(dd, n), np2 |-> 0, out2 |-> TargetOf(sd, n),
              idx |-> [i \in 1..n |-> Uninit]]

\* Variant 1 pack of the driver's buffers; the driver catches the exception
\* of a size mismatch and goes on to the next call with the buffers as the
\* failed call left them
HPackPred ==
    /\ ph.pc = "start"
    /\ LET r == Pack(ph.P, ph.n, ph.sparse, ph.dense1, ph.denseVal)
       IN  ph' = [ph EXCEPT !.pc = IF r.err THEN "error1" ELSE "packed1",
                            !.dense1 = r.dense, !.np1 = r.npacked]
    /\ UNCHANGED appVars

\* Variant 1 unpack into the target buffers
HUnpackPred ==
    /\ ph.pc \in {"packed1", "error1"}
    /\ LET r == Unpack(ph.P, ph.n, ph.dense1, ph.target, ph.denseVal)
       IN  ph' = [ph EXCEPT !.pc = IF r.err THEN "error2" ELSE "unpacked1",
                            !.out1 = r.sparse]
    /\ UNCHANGED appVars

\* Variant 2 pack of the same buffers
HPackIdx ==
    /\ ph.pc \in {"unpacked1", "error2"}
    /\ LET r == PackIdx(ph.P, ph.idx, ph.n, ph.sparse, ph.dense2, ph.denseVal)
       IN  ph' = [ph EXCEPT !.pc = IF r.err THEN "error3" ELSE "packed2",
                            !.dense2 = r.dense, !.np2 = r.npacked,
                            !.idx = r.sparse_indices]
    /\ UNCHANGED appVars

\* Variant 2 unpack into the same target buffers
HUnpackIdx ==
    /\ ph.pc \in {"packed2", "error3"}
    /\ LET r == UnpackIdx(ph.idx, ph.np2, ph.dense2, ph.target, ph.denseVal)
       IN  ph' = [ph EXCEPT !.pc = IF r.err THEN "error" ELSE "done",
                            !.out2 = r.sparse]
    /\ UNCHANGED appVars

PackNext == HPackPred \/ HUnpackPred \/ HPackIdx \/ HUnpackIdx

SpecPack == PackInit /\ [][PackNext]_vars

(***************************************************************************)
(* A driver for computePartitionSize: one call on bounded arguments.       *)
(***************************************************************************)
\* largest number of input features and of output features of a call
MaxFeatures == 2
\* largest budget pSize of a call, in bytes
MaxBudget == 40

PartitionInit ==
    /\ app = [num_mats |-> 0]
    /\ partitionSize = 0
    /\ tens = <<>>
    /\ pc = "idle"
    /\ ev = <<>>
    /\ inr = <<>>
    /\ live = 0
    /\ orig = <<>>
    /\ hist = <<>>
    /\ \E ni \in 0..MaxFeatures, no \in 0..MaxFeatures, re \in BOOLEAN,
          budget \in 0..MaxBudget :
          ph = [pc |-> "call", numIFeatures |-> ni, numOFeatures |-> no,
                includeReIndex |-> re, pSize |-> budget, ret |-> 0]

\* the divisor of the call is 0: no features and no re-index vector
ZeroDivisor ==
    ~ph.includeReIndex /\ ph.numIFeatures + ph.numOFeatures = 0

\* the call returns
HComputePartitionSize ==
    /\ ph.pc = "call"
    /\ ~ZeroDivisor
    /\ ph' = [ph EXCEPT !.pc = "returned",
                        !.ret = computePartitionSize(ph.numIFeatures,
                                    ph.numOFeatures, ph.includeReIndex, ph.pSize)]
    /\ UNCHANGED appVars

\* the call divides by zero
HComputePartitionSizeFault ==
    /\ ph.pc = "call"
    /\ ZeroDivisor
    /\ ph' = [ph EXCEPT !.pc = "fault"]
    /\ UNCHANGED appVars

PartitionNext == HComputePartitionSize \/ HComputePartitionSizeFault

SpecPartition == PartitionInit /\ [][PartitionNext]_vars

(***************************************************************************)
(* MiniApp::evaluate_inner: the steps of the partition loop, as functions  *)
(* of the buffers they read and write.                                     *)
(***************************************************************************)
\* as PredicateOf, without the partition's offset
PredicateOf_noOffset(p_ml_acceptable, pId) == p_ml_acceptable

\* bool* predicate = &p_ml_acceptable[pId];
PredicateOf(p_ml_acceptable, pId) == View(p_ml_acceptable, pId)

\* as SparseInputs, without the partition's offset
SparseInputs_noOffset(pDensity, pEnergy, pId) == <<pDensity, pEnergy>>

\* sparse_inputs({&pDensity[pId], &pEnergy[pId]})
SparseInputs(pDensity, pEnergy, pId) == <<View(pDensity, pId), View(pEnergy, pId)>>
\* as SparseOutputs, without the partition's offset
SparseOutputs_noOffset(outs, pId) == outs

\* sparse_outputs({&pPressure[pId], &pSoundSpeed2[pId], &pBulkmod[pId],
\*                 &pTemperature[pId]})
SparseOutputs(outs, pId) == [f \in DOMAIN outs |-> View(outs[f], pId)]

\* the caller's output buffers after writes through sparse_outputs
WrittenBack(outs, pId, views) ==
    [f \in DOMAIN outs |-> Splice(outs[f], pId, views[f])]

\* surrogates[mat_idx]->Eval(elements, sparse_inputs, sparse_outputs)
SurrogateStep(pId, elements, pDensity, pEnergy, outs) ==
    WrittenBack(outs, pId,
                SurrogateEval(elements, SparseInputs(pDensity, pEnergy, pId),
                              SparseOutputs(outs, pId)))

\* packedElements = pack(predicate, elements, sparse_inputs, packed_inputs)
PackStep(pId, elements, p_ml_acceptable, pDensity, pEnergy, packed_inputs) ==
    Pack(PredicateOf(p_ml_acceptable, pId), elements,
         SparseInputs(pDensity, pEnergy, pId), packed_inputs, FALSE)

\* eoses[mat_idx]->Eval(packedElements, packed_energy, packed_density, ...)
PhysicsStep(packedElements, packed_inputs, packed_outputs) ==
    EOSEval(packedElements, packed_inputs[2], packed_inputs[1], packed_outputs)

\* unpack(predicate, elements, packed_outputs, sparse_outputs)
UnpackStep(pId, elements, p_ml_acceptable, packed_outputs, outs) ==
    LET r == Unpack(PredicateOf(p_ml_acceptable, pId), elements,
                    packed_outputs, SparseOutputs(outs, pId), FALSE)
    IN  [err |-> r.err, outs |-> WrittenBack(outs, pId, r.sparse)]

\* the build: __ENABLE_DB__ is defined, so evaluate_inner stores what the
\* physics evaluator computed
EnableDB == TRUE

\* the records DB->Store(packedElements, 2, 4, inputs, outputs) appends, one
\* for each of the packedElements samples, with
\* inputs = {packed_energy, packed_density} and the four packed outputs
StoreRows(packedElements, packed_inputs, packed_outputs) ==
    {<<packed_inputs[2][j], packed_inputs[1][j]>>
         \o [f \in 1..NumOutputs |-> packed_outputs[f][j]] :
     j \in 1..packedElements}
\* as ElementsOf, with the tail partition not shortened
ElementsOf_fullPartition(partitionElements, num_data, pId) == partitionElements

\* int elements = std::min(partitionElements, num_data - pId);
ElementsOf(partitionElements, num_data, pId) ==
    Min(partitionElements, num_data - pId)

\* the cells (C indices of the caller's buffers) the unpack loop writes:
\* those of the partition whose predicate[i] == denseVal, denseVal = false
UnpackWrites(pId, elements, p_ml_acceptable) ==
    {pId + j : j \in {j \in 0..(elements - 1) :
                        PredicateOf(p_ml_acceptable, pId)[j + 1] = FALSE}}

RECURSIVE InnerLoop(_, _, _, _, _, _, _, _)
\* the partition loop of evaluate_inner from pId on, as a function of the
\* caller's buffers, when no collaborator fails:
\* for (pId < num_data; pId += partitionElements) { ... }
InnerLoop(num_data, partitionElements, p_ml_acceptable, pDens, pEner, hasSurrogate, pId, outs) ==
    IF pId >= num_data
    THEN outs
    ELSE LET elements == ElementsOf(partitionElements, num_data, pId)
             surr == IF hasSurrogate
                     THEN SurrogateStep(pId, elements, pDens, pEner, outs)
                     ELSE outs
             pk == PackStep(pId, elements, p_ml_acceptable, pDens, pEner,
                            [d \in 1..NumInputs |-> Fresh(elements)])
             po == PhysicsStep(pk.npacked, pk.dense,
                               [f \in 1..NumOutputs |-> Fresh(elements)])
         IN  InnerLoop(num_data, partitionElements, p_ml_acceptable, pDens,
                       pEner, hasSurrogate, pId + partitionElements,
                       UnpackStep(pId, elements, p_ml_acceptable, po, surr).outs)

(***************************************************************************)
(* pack_ij and unpack_ij: gather of a material's active elements into      *)
(* dense (q, k) buffers and the scatter back.  Sample (q, e) of a material *)
(* slice is cell q + Q * e of the slice.                                   *)
(***************************************************************************)
\* dst_dense(q, k) = src_block(q, S[offset + k], m)
PackIJ(m, Q, nelems, offset, S, src) ==
    [i \in 1..(nelems * Q) |->
        LET k == (i - 1) \div Q
            q == (i - 1) % Q
        IN  src[m][q + Q * S[offset + k + 1] + 1]]

\* the dense positions k whose element is e
DenseOf(e, nelems, offset, S) == {k \in 0..(nelems - 1) : S[offset + k + 1] = e}
\* as UnpackIJ, writing every cell of the material's slice from the dense
\* buffer (position 0 where the cell's element is not in the list)
UnpackIJ_everyCell(m, Q, nelems, offset, S, dense, dst) ==
    [dst EXCEPT ![m] =
        [pos \in DOMAIN dst[m] |->
            LET e == (pos - 1) \div Q
                q == (pos - 1) % Q
                ks == DenseOf(e, nelems, offset, S)
            IN  dense[q + Q * (IF ks = {} THEN 0
                               ELSE CHOOSE k \in ks : \A j \in ks : j <= k) + 1]]]

\* dst_block(q, S[offset + k], m) = src_dense(q, k)
UnpackIJ(m, Q, nelems, offset, S, dense, dst) ==
    [dst EXCEPT ![m] =
        [pos \in DOMAIN dst[m] |->
            LET e == (pos - 1) \div Q
                q == (pos - 1) % Q
                ks == DenseOf(e, nelems, offset, S)
            IN  IF ks = {} THEN dst[m][pos]
                ELSE dense[q + Q * (CHOOSE k \in ks : \A j \in ks : j <= k) + 1]]]

(***************************************************************************)
(* Initial state: a MiniApp just constructed and configured, and the       *)
(* arguments of one evaluate call.                                         *)
(***************************************************************************)
\* the index lists of a material: its active elements in ascending order
IndexLists(E) ==
    {s \in UNION {[1..k -> 0..(E - 1)] : k \in 0..E} :
        \A a, b \in DOMAIN s : a < b => s[a] < s[b]}

RECURSIVE EndOffset(_, _, _)
\* S[m]: end offset of material m's index list in the table
EndOffset(lists, M, m) ==
    IF m < 0 THEN M ELSE EndOffset(lists, M, m - 1) + Len(lists[m])

RECURSIVE ConcatLists(_, _, _)
ConcatLists(lists, M, m) ==
    IF m >= M THEN <<>> ELSE lists[m] \o ConcatLists(lists, M, m + 1)

\* the sparse element index table: M end offsets, then the index lists
TableOf(lists, M) ==
    [i \in 1..M |-> EndOffset(lists, M, i - 1)] \o ConcatLists(lists, M, 0)

\* number of sample (m, pos) in the mesh
SampleNo(m, pos, E, Q) == m * E * Q + (pos - 1)

IdleEv == [mat_idx |-> 0, offset_curr |-> 0, num_elems_for_mat |-> 0,
           sparse |-> FALSE, dense_in |-> <<>>, dense_out |-> <<>>]

IdleInr == [mat_idx |-> 0, num_data |-> 0, p_ml_acceptable |-> <<>>,
            partitionElements |-> 0, pId |-> 0, elements |-> 0,
            packed_inputs |-> <<>>, packed_outputs |-> <<>>,
            packedElements |-> 0, outs_at_entry |-> <<>>,
            cover |-> <<>>, starts |-> {}, last |-> <<>>]

IdlePh == [pc |-> "idle"]

IdleOrig == [pc |-> "idle", mat_idx |-> 0, offset_curr |-> 0,
             num_elems_for_mat |-> 0, dense_in |-> <<>>, dense_out |-> <<>>,
             dense_ml_acceptable |-> <<>>, partitionElements |-> 0,
             pId |-> 0, out |-> <<>>]

\* the meshes <<num_mats, num_elems, num_qpts>> of the model
Shapes ==
    {sh \in (1..MaxMats) \X (1..MaxElems) \X (1..MaxSamples) :
        /\ sh[1] * sh[2] * sh[3] <= MaxSamples
        /\ sh[1] > 1 => sh[2] * sh[3] >= 2}

Init ==
    /\ ph = IdlePh
    /\ \E sh \in Shapes :
         LET M == sh[1]
             E == sh[2]
             Q == sh[3]
             Mats == 0..(M - 1)
         IN  /\ \E cpu \in BOOLEAN, psm \in BOOLEAN,
                   eo \in [Mats -> BOOLEAN], hd \in [Mats -> BOOLEAN],
                   su \in [Mats -> BOOLEAN] :
                   app = [num_mats |-> M, num_elems |-> E, num_qpts |-> Q,
                          is_cpu |-> cpu, pack_sparse_mats |-> psm,
                          eoses |-> eo, hdcaches |-> hd, surrogates |-> su]
             /\ \E lists \in [Mats -> IndexLists(E)] :
                   tens = [density |-> [m \in Mats |-> [pos \in 1..(E * Q) |->
                                          DensityOf(SampleNo(m, pos, E, Q))]],
                           energy |-> [m \in Mats |-> [pos \in 1..(E * Q) |->
                                          EnergyOf(SampleNo(m, pos, E, Q))]],
                           sparse_elem_indices |-> TableOf(lists, M),
                           out |-> [f \in 1..NumOutputs |-> [m \in Mats |->
                                      [pos \in 1..(E * Q) |->
                                          PriorOf(f, SampleNo(m, pos, E, Q))]]]]
             /\ hist = [writes |-> [f \in 1..NumOutputs |-> [m \in Mats |->
                                      [pos \in 1..(E * Q) |-> 0]]],
                        pred |-> [m \in Mats |-> <<>>],
                        path |-> [m \in Mats |-> "none"],
                        calls |-> [m \in Mats |-> {}],
                        ncalls |-> [m \in Mats |-> 0],
                        ndata |-> [m \in Mats |-> 0],
                        eos_k |-> [m \in Mats |-> {}],
                        stored |-> 0, records |-> {}]
    /\ partitionSize \in Budgets
    /\ pc = "mat_loop"
    /\ ev = IdleEv
    /\ inr = IdleInr
    /\ live = 0
    /\ orig = IdleOrig

(***************************************************************************)
(* MiniApp::evaluate: the material loop.                                   *)
(***************************************************************************)
\* C index i of the table
TableAt(i) == tens.sparse_elem_indices[i + 1]

\* offset_curr = mat_idx == 0 ? num_mats : sparse_elem_indices[mat_idx - 1]
OffsetCurr(mat_idx) == IF mat_idx = 0 THEN app.num_mats ELSE TableAt(mat_idx - 1)

\* num_elems_for_mat = offset_next - offset_curr
NumElemsForMat(mat_idx) == TableAt(mat_idx) - OffsetCurr(mat_idx)

\* as SkipMaterial, skipping no material
SkipMaterial_never(num_elems_for_mat) == FALSE

\* if (num_elems_for_mat == 0) { continue; }
SkipMaterial(num_elems_for_mat) == num_elems_for_mat = 0

\* as UseSparsePacking, without the test of num_elems_for_mat
UseSparsePacking_always(num_elems_for_mat) ==
    app.is_cpu /\ app.pack_sparse_mats

\* if (is_cpu && pack_sparse_mats && num_elems_for_mat < num_elems)
UseSparsePacking(num_elems_for_mat) ==
    app.is_cpu /\ app.pack_sparse_mats /\ num_elems_for_mat < app.num_elems

\* the call evaluate_inner(mat_idx, num_data, ...)
CallInner(mat_idx, num_data, outs) ==
    inr' = [IdleInr EXCEPT !.mat_idx = mat_idx, !.num_data = num_data,
                           !.outs_at_entry = outs,
                           !.cover = [i \in 1..num_data |-> 0],
                           !.last = [i \in 1..num_data |-> "none"]]

\* for (mat_idx < num_mats) fails: evaluate returns
EvaluateReturn ==
    /\ pc = "mat_loop"
    /\ ev.mat_idx >= app.num_mats
    /\ pc' = "done"
    /\ UNCHANGED <<orig, ph, app, partitionSize, tens, ev, inr, live, hist>>

\* if (num_elems_for_mat == 0) continue;
MatSkip ==
    /\ pc = "mat_loop"
    /\ ev.mat_idx < app.num_mats
    /\ SkipMaterial(NumElemsForMat(ev.mat_idx))
    /\ ev' = [IdleEv EXCEPT !.mat_idx = ev.mat_idx + 1]
    /\ hist' = [hist EXCEPT !.path[ev.mat_idx] = "skip"]
    /\ UNCHANGED <<orig, ph, app, partitionSize, tens, pc, inr, live>>

\* sparse path: allocate the dense buffers, pack_ij, call evaluate_inner
MatSparse ==
    /\ pc = "mat_loop"
    /\ ev.mat_idx < app.num_mats
    /\ LET m == ev.mat_idx
           nem == NumElemsForMat(m)
           off == OffsetCurr(m)
           N == nem * app.num_qpts
           douts == [f \in 1..NumOutputs |-> Fresh(N)]
       IN  /\ ~SkipMaterial(nem)
           /\ UseSparsePacking(nem)
           /\ ev' = [ev EXCEPT !.offset_curr = off, !.num_elems_for_mat = nem,
                        !.sparse = TRUE,
                        !.dense_in = <<PackIJ(m, app.num_qpts, nem, off,
                                              tens.sparse_elem_indices, tens.density),
                                       PackIJ(m, app.num_qpts, nem, off,
                                              tens.sparse_elem_indices, tens.energy)>>,
                        !.dense_out = douts]
           /\ CallInner(m, N, douts)
           /\ hist' = [hist EXCEPT !.path[m] = "sparse",
                                   !.calls[m] = @ \cup {"allocate"},
                                   !.ncalls[m] = @ + 1, !.ndata[m] = N]
    /\ pc' = "inner_entry"
    /\ UNCHANGED <<orig, ph, app, partitionSize, tens, live>>

\* dense path: call evaluate_inner on the material's slice of the tensors
MatDense ==
    /\ pc = "mat_loop"
    /\ ev.mat_idx < app.num_mats
    /\ LET m == ev.mat_idx
           nem == NumElemsForMat(m)
       IN  /\ ~SkipMaterial(nem)
           /\ ~UseSparsePacking(nem)
           /\ ev' = [ev EXCEPT !.offset_curr = OffsetCurr(m),
                        !.num_elems_for_mat = nem, !.sparse = FALSE]
           /\ CallInner(m, app.num_elems * app.num_qpts,
                        [f \in 1..NumOutputs |-> tens.out[f][m]])
           /\ hist' = [hist EXCEPT !.path[m] = "dense",
                                   !.ncalls[m] = @ + 1,
                                   !.ndata[m] = app.num_elems * app.num_qpts]
    /\ pc' = "inner_entry"
    /\ UNCHANGED <<orig, ph, app, partitionSize, tens, live>>

(***************************************************************************)
(* MiniApp::evaluate_inner.  Its six buffers are the dense buffers of the  *)
(* sparse path or the material's slices of the tensors.                    *)
(***************************************************************************)
pDensity == IF ev.sparse THEN ev.dense_in[1] ELSE tens.density[inr.mat_idx]

pEnergy == IF ev.sparse THEN ev.dense_in[2] ELSE tens.energy[inr.mat_idx]

\* pPressure, pSoundSpeed2, pBulkmod, pTemperature
pOutputs ==
    IF ev.sparse THEN ev.dense_out
    ELSE [f \in 1..NumOutputs |-> tens.out[f][inr.mat_idx]]

\* the writes through the output pointers: outs replaces the four buffers,
\* cells `written` (C indices) are written once more; h is the history of
\* the step but for these writes
WriteOutputs(outs, written, h) ==
    IF ev.sparse
    THEN /\ ev' = [ev EXCEPT !.dense_out = outs]
         /\ hist' = h
         /\ UNCHANGED tens
    ELSE /\ tens' = [tens EXCEPT !.out = [f \in 1..NumOutputs |->
                        [tens.out[f] EXCEPT ![inr.mat_idx] = outs[f]]]]
         /\ hist' = [h EXCEPT !.writes = [f \in 1..NumOutputs |->
                        [hist.writes[f] EXCEPT ![inr.mat_idx] =
                            [pos \in DOMAIN hist.writes[f][inr.mat_idx] |->
                                hist.writes[f][inr.mat_idx][pos]
                                  + (IF (pos - 1) \in written THEN 1 ELSE 0)]]]]
         /\ UNCHANGED ev

\* contents of the predicate buffer AMS::utilities::allocate returns: the
\* memory is not initialised
AllocatedPredicates(num_data) == [1..num_data -> BOOLEAN]

\* allocation of p_ml_acceptable; hdcaches[mat_idx] == nullptr, so the
\* buffer is left as allocated
InnerEnterNoUQ ==
    /\ pc = "inner_entry"
    /\ ~app.hdcaches[inr.mat_idx]
    /\ \E garbage \in AllocatedPredicates(inr.num_data) :
         /\ inr' = [inr EXCEPT !.p_ml_acceptable = garbage,
                       !.partitionElements =
                           computePartitionSize(NumInputs, NumOutputs, TRUE,
                                                partitionSize),
                       !.pId = 0]
         /\ hist' = [hist EXCEPT !.pred[inr.mat_idx] = garbage,
                                 !.calls[inr.mat_idx] = @ \cup {"allocate"}]
    /\ live' = live + 1
    /\ pc' = "part_head"
    /\ UNCHANGED <<orig, ph, app, partitionSize, tens, ev>>

\* allocation of p_ml_acceptable, then hdcaches[mat_idx]->evaluate writes an
\* acceptance flag for every sample
InnerEnterUQ ==
    /\ pc = "inner_entry"
    /\ app.hdcaches[inr.mat_idx]
    /\ \E acceptable \in [1..inr.num_data -> BOOLEAN] :
         /\ inr' = [inr EXCEPT !.p_ml_acceptable = acceptable,
                       !.partitionElements =
                           computePartitionSize(NumInputs, NumOutputs, TRUE,
                                                partitionSize),
                       !.pId = 0]
         /\ hist' = [hist EXCEPT !.pred[inr.mat_idx] = acceptable,
                                 !.calls[inr.mat_idx] = @ \cup {"allocate", "uq"}]
    /\ live' = live + 1
    /\ pc' = "part_head"
    /\ UNCHANGED <<orig, ph, app, partitionSize, tens, ev>>

\* allocation of p_ml_acceptable, then hdcaches[mat_idx]->evaluate throws
InnerEnterUQThrows ==
    /\ pc = "inner_entry"
    /\ app.hdcaches[inr.mat_idx]
    /\ live' = live + 1
    /\ hist' = [hist EXCEPT !.calls[inr.mat_idx] = @ \cup {"allocate", "uq"}]
    /\ pc' = "error"
    /\ UNCHANGED <<orig, ph, app, partitionSize, tens, ev, inr>>

\* for (pId < num_data): allocate the six packed buffers of the partition
PartitionBegin ==
    /\ pc = "part_head"
    /\ inr.pId < inr.num_data
    /\ LET elements == ElementsOf(inr.partitionElements, inr.num_data, inr.pId)
       IN  inr' = [inr EXCEPT !.elements = elements,
                      !.packed_inputs = [d \in 1..NumInputs |-> Fresh(elements)],
                      !.packed_outputs = [f \in 1..NumOutputs |-> Fresh(elements)],
                      !.packedElements = 0,
                      !.starts = @ \cup {inr.pId},
                      !.cover = [i \in DOMAIN @ |->
                                   IF inr.pId < i /\ i <= inr.pId + elements
                                   THEN @[i] + 1 ELSE @[i]]]
    /\ live' = live + NumInputs + NumOutputs
    /\ pc' = "surrogate"
    /\ UNCHANGED <<orig, ph, app, partitionSize, tens, ev, hist>>

\* the partition loop ends: deallocate(p_ml_acceptable) and return
InnerReturn ==
    /\ pc = "part_head"
    /\ inr.pId >= inr.num_data
    /\ live' = live - 1
    /\ pc' = "inner_ret"
    /\ UNCHANGED <<orig, ph, app, partitionSize, tens, ev, inr, hist>>

\* if (surrogates[mat_idx] != nullptr) surrogates[mat_idx]->Eval(...)
SurrogateCall ==
    /\ pc = "surrogate"
    /\ app.surrogates[inr.mat_idx]
    /\ WriteOutputs(SurrogateStep(inr.pId, inr.elements, pDensity, pEnergy, pOutputs),
                    inr.pId..(inr.pId + inr.elements - 1),
                    [hist EXCEPT !.calls[inr.mat_idx] = @ \cup {"surrogate"}])
    /\ inr' = [inr EXCEPT !.last = [i \in DOMAIN @ |->
                  IF inr.pId < i /\ i <= inr.pId + inr.elements
                  THEN "surrogate" ELSE @[i]]]
    /\ pc' = "pack"
    /\ UNCHANGED <<orig, ph, app, partitionSize, live>>

\* surrogates[mat_idx]->Eval throws
SurrogateThrows ==
    /\ pc = "surrogate"
    /\ app.surrogates[inr.mat_idx]
    /\ hist' = [hist EXCEPT !.calls[inr.mat_idx] = @ \cup {"surrogate"}]
    /\ pc' = "error"
    /\ UNCHANGED <<orig, ph, app, partitionSize, tens, ev, inr, live>>

\* surrogates[mat_idx] == nullptr: no surrogate call
SurrogateSkip ==
    /\ pc = "surrogate"
    /\ ~app.surrogates[inr.mat_idx]
    /\ pc' = "pack"
    /\ UNCHANGED <<orig, ph, app, partitionSize, tens, ev, inr, live, hist>>

\* packedElements = data_handler::pack(predicate, elements, ...)
PackInputs ==
    /\ pc = "pack"
    /\ LET r == PackStep(inr.pId, inr.elements, inr.p_ml_acceptable,
                         pDensity, pEnergy, inr.packed_inputs)
       IN  IF r.err
           THEN pc' = "error" /\ UNCHANGED inr
           ELSE /\ pc' = "physics"
                /\ inr' = [inr EXCEPT !.packed_inputs = r.dense,
                              !.packedElements = r.npacked]
    /\ UNCHANGED <<orig, ph, app, partitionSize, tens, ev, live, hist>>
\* as EosCalled, were the call made only for a packed count above zero
EosCalled_onlyIfPacked ==
    IF inr.packedElements > 0
    THEN [hist EXCEPT !.calls[inr.mat_idx] = @ \cup {"eos"},
                      !.eos_k[inr.mat_idx] = @ \cup {inr.packedElements}]
    ELSE hist

\* the history after eoses[mat_idx]->Eval(packedElements, ...)
EosCalled ==
    [hist EXCEPT !.calls[inr.mat_idx] = @ \cup {"eos"},
                 !.eos_k[inr.mat_idx] = @ \cup {inr.packedElements}]

\* eoses[mat_idx]->Eval(packedElements, ...), then, in a build with
\* __ENABLE_DB__, DB->Store(packedElements, 2, 4, inputs, outputs)
PhysicsCall ==
    /\ pc = "physics"
    /\ app.eoses[inr.mat_idx]
    /\ LET po == PhysicsStep(inr.packedElements, inr.packed_inputs,
                             inr.packed_outputs)
       IN  /\ inr' = [inr EXCEPT !.packed_outputs = po]
           /\ hist' = IF EnableDB
                      THEN [EosCalled EXCEPT
                              !.calls[inr.mat_idx] = @ \cup {"store"},
                              !.stored = @ + inr.packedElements,
                              !.records = @ \cup StoreRows(inr.packedElements,
                                                           inr.packed_inputs, po)]
                      ELSE EosCalled
    /\ pc' = "unpack"
    /\ UNCHANGED <<orig, ph, app, partitionSize, tens, ev, live>>

\* eoses[mat_idx]->Eval throws
PhysicsThrows ==
    /\ pc = "physics"
    /\ app.eoses[inr.mat_idx]
    /\ hist' = EosCalled
    /\ pc' = "error"
    /\ UNCHANGED <<orig, ph, app, partitionSize, tens, ev, inr, live>>

\* eoses[mat_idx]->Eval returns and DB->Store throws
StoreThrows ==
    /\ pc = "physics"
    /\ app.eoses[inr.mat_idx]
    /\ EnableDB
    /\ inr' = [inr EXCEPT !.packed_outputs =
                  PhysicsStep(inr.packedElements, inr.packed_inputs,
                              inr.packed_outputs)]
    /\ hist' = [EosCalled EXCEPT !.calls[inr.mat_idx] = @ \cup {"store"}]
    /\ pc' = "error"
    /\ UNCHANGED <<orig, ph, app, partitionSize, tens, ev, live>>

\* eoses[mat_idx] == nullptr: the virtual call goes through the null
\* pointer, which ends the process
PhysicsNullCall ==
    /\ pc = "physics"
    /\ ~app.eoses[inr.mat_idx]
    /\ pc' = "fault"
    /\ UNCHANGED <<orig, ph, app, partitionSize, tens, ev, inr, live, hist>>

\* data_handler::unpack(predicate, elements, packed_outputs, sparse_outputs)
UnpackOutputs ==
    /\ pc = "unpack"
    /\ LET r == UnpackStep(inr.pId, inr.elements, inr.p_ml_acceptable,
                           inr.packed_outputs, pOutputs)
       IN  IF r.err
           THEN pc' = "error" /\ UNCHANGED <<tens, ev, hist>>
           ELSE /\ pc' = "release"
                /\ WriteOutputs(r.outs,
                      UnpackWrites(inr.pId, inr.elements, inr.p_ml_acceptable),
                      hist)
    /\ inr' = [inr EXCEPT !.last = [i \in DOMAIN @ |->
                  IF (i - 1) \in UnpackWrites(inr.pId, inr.elements,
                                              inr.p_ml_acceptable)
                  THEN "physics" ELSE @[i]]]
    /\ UNCHANGED <<orig, ph, app, partitionSize, live>>

\* deallocate the six packed buffers; pId += partitionElements
PartitionEnd ==
    /\ pc = "release"
    /\ inr' = [inr EXCEPT !.pId = inr.pId + inr.partitionElements,
                  !.packed_inputs = <<>>, !.packed_outputs = <<>>]
    /\ live' = live - (NumInputs + NumOutputs)
    /\ pc' = "part_head"
    /\ UNCHANGED <<orig, ph, app, partitionSize, tens, ev, hist>>

\* evaluate_inner has returned on the sparse path: unpack_ij, next material
ScatterBack ==
    /\ pc = "inner_ret"
    /\ ev.sparse
    /\ LET m == ev.mat_idx
           Q == app.num_qpts
           S == tens.sparse_elem_indices
       IN  /\ tens' = [tens EXCEPT !.out = [f \in 1..NumOutputs |->
                          UnpackIJ(m, Q, ev.num_elems_for_mat, ev.offset_curr, S,
                                   ev.dense_out[f], tens.out[f])]]
           /\ hist' = [hist EXCEPT !.writes = [f \in 1..NumOutputs |->
                          [hist.writes[f] EXCEPT ![m] =
                              [pos \in DOMAIN hist.writes[f][m] |->
                                  hist.writes[f][m][pos]
                                    + Cardinality(DenseOf((pos - 1) \div Q,
                                          ev.num_elems_for_mat, ev.offset_curr, S))]]]]
    /\ ev' = [IdleEv EXCEPT !.mat_idx = ev.mat_idx + 1]
    /\ pc' = "mat_loop"
    /\ UNCHANGED <<orig, ph, app, partitionSize, inr, live>>

\* evaluate_inner has returned on the dense path: next material
DenseDone ==
    /\ pc = "inner_ret"
    /\ ~ev.sparse
    /\ ev' = [IdleEv EXCEPT !.mat_idx = ev.mat_idx + 1]
    /\ pc' = "mat_loop"
    /\ UNCHANGED <<orig, ph, app, partitionSize, tens, inr, live, hist>>

Next ==
    \/ EvaluateReturn \/ MatSkip \/ MatSparse \/ MatDense
    \/ InnerEnterNoUQ \/ InnerEnterUQ \/ InnerEnterUQThrows
    \/ PartitionBegin \/ InnerReturn
    \/ SurrogateCall \/ SurrogateThrows \/ SurrogateSkip
    \/ PackInputs
    \/ PhysicsCall \/ PhysicsThrows \/ StoreThrows \/ PhysicsNullCall
    \/ UnpackOutputs
    \/ PartitionEnd
    \/ ScatterBack \/ DenseDone

Spec == Init /\ [][Next]_vars

(***************************************************************************)
(* Properties of pack and unpack, checked under SpecPack.                  *)
(***************************************************************************)
\* indices of the driver's predicate that pack selects
Selected == {i \in 0..(ph.n - 1) : ph.P[i + 1] = ph.denseVal}

\* number of selected indices below i
RankOf(i) == Cardinality({k \in Selected : k < i})

\* dense holds the selected columns of the driver's sparse buffers, in order
IsFiltered(dense) ==
    \A d \in DOMAIN dense : \A i \in Selected :
        dense[d][RankOf(i) + 1] = ph.sparse[d][i + 1]

\* C4: both pack variants return the number of indices with P[i] = dense_val
\* and leave in dense[d][j] the sparse value of the j-th smallest such index;
\* Variant 2 records exactly those indices, strictly increasing.
C4_PackFiltersInOrder ==
    /\ ph.pc \in {"packed1", "unpacked1", "packed2", "done"} =>
          /\ ph.np1 = Cardinality(Selected)
          /\ IsFiltered(ph.dense1)
    /\ ph.pc \in {"packed2", "done"} =>
          /\ ph.np2 = Cardinality(Selected)
          /\ IsFiltered(ph.dense2)
          /\ \A i \in Selected : ph.idx[RankOf(i) + 1] = i
          /\ \A j, k \in 1..ph.np2 : j < k => ph.idx[j] < ph.idx[k]

\* C4 witness: Variant 2 has packed two of three samples, skipping the first
C4_Witness ==
    /\ ph.pc = "packed2"
    /\ ph.n = 3 /\ ph.np2 = 2 /\ ph.np1 = 2
    /\ 0 \notin Selected
    /\ Len(ph.sparse) = 2

\* C5: packing X with P and unpacking into X' with the same P and dense_val
\* gives X'[d][i] = X[d][i] where P[i] = dense_val and leaves X'[d][i] as it
\* was elsewhere.
C5_RoundTrip ==
    ph.pc \in {"unpacked1", "packed2", "done"} =>
        \A d \in DOMAIN ph.out1 : \A i \in 0..(ph.n - 1) :
            ph.out1[d][i + 1] = IF i \in Selected
                                THEN ph.sparse[d][i + 1]
                                ELSE ph.target[d][i + 1]

\* C5 witness: a round trip over a predicate that selects some samples and
\* skips others, the first selected one not being the first sample
C5_Witness ==
    /\ ph.pc = "unpacked1"
    /\ ph.n = 3 /\ Cardinality(Selected) = 2 /\ 0 \notin Selected
    /\ ph.out1 # ph.target

\* C6: for the same predicate and buffers Variant 2 produces the same packed
\* contents, the same npacked and the same final sparse contents as Variant 1.
C6_IndexVariantEquivalence ==
    ph.pc = "done" =>
        /\ ph.np2 = ph.np1
        /\ ph.dense2 = ph.dense1
        /\ ph.out2 = ph.out1

\* C6 witness: both variants ran over a predicate whose first selected index
\* is not 0, so sparse positions and packed positions differ
C6_Witness ==
    /\ ph.pc = "done"
    /\ ph.np2 >= 1 /\ ph.np2 < ph.n
    /\ ph.idx[1] # 0
    /\ ph.out2 # ph.target


(***************************************************************************)
(* Properties of evaluate_inner and evaluate, checked under Spec.          *)
(***************************************************************************)
\* evaluate_inner has returned to evaluate and its buffers are still in scope
InnerReturned == pc = "inner_ret"

\* evaluate_inner is running, past the allocation of the predicate buffer
InnerRunning ==
    pc \in {"part_head", "surrogate", "pack", "physics", "unpack", "release"}

\* samples (sequence indices) of the buffers evaluate_inner was called with
InnerSamples == 1..inr.num_data

C2_NoCacheAllFalse ==
    ((InnerRunning \/ InnerReturned) /\ ~app.hdcaches[inr.mat_idx]) =>
        /\ \A i \in InnerSamples : inr.p_ml_acceptable[i] = FALSE
        /\ InnerReturned =>
              \A f \in 1..NumOutputs : \A i \in InnerSamples :
                  pOutputs[f][i] = Phys(f, pEnergy[i], pDensity[i])

\* evaluate_inner has been left: by its return, or by an error raised in it
InnerLeft == pc \in {"inner_ret", "error", "fault"}

\* C7 as claimed: whenever evaluate_inner has been left, normally or by an
\* error, no transient allocation is outstanding.
C7_ReleasedOnEveryExit == InnerLeft => live = 0

\* C8 as claimed: an absent collaborator is skipped, never dereferenced: no
\* call is made through a null eoses, surrogates or hdcaches entry.
C8_AbsentNeverDereferenced == pc # "fault"

\* the outputs evaluate_inner leaves when it runs as a single partition of
\* num_data samples on the buffers and predicate of the current call
SinglePartitionOutputs ==
    InnerLoop(inr.num_data, inr.num_data, inr.p_ml_acceptable, pDensity,
              pEnergy, app.surrogates[inr.mat_idx], 0, inr.outs_at_entry)

\* C9: with the same predicate, evaluate_inner run with partition size k
\* leaves the four output buffers as a run with one partition of N samples.
C9_PartitionDeterminism ==
    InnerReturned => pOutputs = SinglePartitionOutputs

\* C9 witness: a return after four partitions of one sample each, with a
\* surrogate and a predicate that rejects the second and third sample
C9_Witness ==
    /\ InnerReturned
    /\ inr.num_data = 4 /\ inr.partitionElements = 1
    /\ app.surrogates[inr.mat_idx]
    /\ inr.p_ml_acceptable = <<TRUE, FALSE, FALSE, TRUE>>
    /\ inr.pId = 4

(***************************************************************************)
(* Properties of one evaluate call.                                        *)
(***************************************************************************)
Mats == 0..(app.num_mats - 1)

\* element and quadrature point of cell pos of a material slice
ElemOf(pos) == (pos - 1) \div app.num_qpts
QptOf(pos) == (pos - 1) % app.num_qpts

\* the elements material m's index list names
ActiveElems(m) ==
    {TableAt(OffsetCurr(m) + k) : k \in 0..(NumElemsForMat(m) - 1)}

\* the cells of material m's slice whose element is active in m
ActiveCells(m) == {pos \in DOMAIN tens.out[1][m] : ElemOf(pos) \in ActiveElems(m)}

\* the materials evaluate has finished with
Finished(m) == m < ev.mat_idx

\* C3 as claimed: one evaluate call writes every output tensor cell of an
\* active element exactly once.
C3_WrittenExactlyOnce ==
    pc = "done" =>
        \A m \in Mats : \A f \in 1..NumOutputs : \A pos \in ActiveCells(m) :
            hist.writes[f][m][pos] = 1

\* C3 amended: one evaluate call that completes writes every output tensor
\* cell of an active element exactly once on the sparse path (the scatter);
\* on the dense path it writes the cell once if a surrogate is registered
\* and once more if the predicate is false there.
C3_WriteCounts ==
    pc = "done" =>
        \A m \in Mats : \A f \in 1..NumOutputs : \A pos \in ActiveCells(m) :
            hist.writes[f][m][pos] =
                IF hist.path[m] = "sparse"
                THEN 1
                ELSE (IF app.surrogates[m] THEN 1 ELSE 0)
                       + (IF hist.pred[m][pos] THEN 0 ELSE 1)

\* C3 witness: an evaluate call that completed with one material on the
\* sparse path and one on the dense path, a cell of the latter written by
\* the surrogate and again by the physics unpack
C3_Witness ==
    /\ pc = "done"
    /\ \E m \in Mats : hist.path[m] = "sparse" /\ ActiveCells(m) # {}
    /\ \E m \in Mats :
          /\ hist.path[m] = "dense"
          /\ \E pos \in ActiveCells(m) : hist.writes[1][m][pos] = 2

\* dense position (sequence index) of cell pos of material m's slice
DenseIndexOf(m, pos) ==
    LET k == CHOOSE k \in 0..(NumElemsForMat(m) - 1) :
                 TableAt(OffsetCurr(m) + k) = ElemOf(pos)
    IN  QptOf(pos) + app.num_qpts * k + 1

\* the predicate of the dense path for material m: at the samples of active
\* elements the flag the sparse path's predicate gave the same sample
DensePredicate(m) ==
    [pos \in DOMAIN tens.out[1][m] |->
        IF pos \in ActiveCells(m)
        THEN hist.pred[m][DenseIndexOf(m, pos)]
        ELSE FALSE]

\* the four output slices the dense path leaves for material m
DensePathOutputs(m) ==
    InnerLoop(app.num_elems * app.num_qpts,
              computePartitionSize(NumInputs, NumOutputs, TRUE, partitionSize),
              DensePredicate(m), tens.density[m], tens.energy[m],
              app.surrogates[m], 0,
              [f \in 1..NumOutputs |->
                  [pos \in DOMAIN tens.out[f][m] |->
                      PriorOf(f, SampleNo(m, pos, app.num_elems, app.num_qpts))]])

\* C10 as claimed: for a material taken on the sparse path, with a UQ cache
\* whose flags depend on the sample's inputs only, the output tensors hold at
\* every cell of an active element what the dense path leaves there.
C10_SparseEqualsDense ==
    \A m \in Mats :
        (Finished(m) /\ hist.path[m] = "sparse" /\ app.hdcaches[m]) =>
            \A f \in 1..NumOutputs : \A pos \in ActiveCells(m) :
                tens.out[f][m][pos] = DensePathOutputs(m)[f][pos]

\* the value output tensor f held at cell pos of material m's slice when
\* evaluate was called
PriorAt(f, m, pos) == PriorOf(f, SampleNo(m, pos, app.num_elems, app.num_qpts))

\* the cells of material m's slice whose element is not active in m
InactiveCells(m) == DOMAIN tens.out[1][m] \ ActiveCells(m)

\* C11: on the sparse path the output tensor cells of material m whose
\* element is not in m's index list are never written and keep their
\* prior values, while the material is evaluated and after.
C11_SparseFrame ==
    \A m \in Mats :
        hist.path[m] = "sparse" =>
            \A f \in 1..NumOutputs : \A pos \in InactiveCells(m) :
                /\ tens.out[f][m][pos] = PriorAt(f, m, pos)
                /\ hist.writes[f][m][pos] = 0

\* C11 witness: a material finished on the sparse path, with a cell of an
\* inactive element and a cell of an active element that the scatter gave a
\* new value
C11_Witness ==
    \E m \in Mats :
        /\ Finished(m) /\ hist.path[m] = "sparse"
        /\ InactiveCells(m) # {}
        /\ \E pos \in ActiveCells(m) : tens.out[1][m][pos] # PriorAt(1, m, pos)

\* C12: a material with no active element (E_m = 0) is skipped: no
\* allocation and no UQ, surrogate, EOS or store call is made for it,
\* evaluate_inner is not called for it, no cell of its slice of an output
\* tensor is written or changed, and evaluate goes on past it.
C12_EmptyMaterialSkipped ==
    \A m \in Mats :
        NumElemsForMat(m) = 0 =>
            /\ hist.calls[m] = {}
            /\ hist.ncalls[m] = 0
            /\ \A f \in 1..NumOutputs : \A pos \in DOMAIN tens.out[f][m] :
                  /\ hist.writes[f][m][pos] = 0
                  /\ tens.out[f][m][pos] = PriorAt(f, m, pos)
            /\ Finished(m) => hist.path[m] = "skip"
            /\ (pc # "mat_loop" /\ ~Finished(m)) => ev.mat_idx # m

\* C12 witness: material 0 has no active element and was skipped, and
\* evaluate_inner has run for material 1 and written its outputs
C12_Witness ==
    /\ app.num_mats = 2
    /\ NumElemsForMat(0) = 0 /\ hist.path[0] = "skip"
    /\ pc = "inner_ret" /\ inr.mat_idx = 1
    /\ hist.calls[1] # {}

\* the input buffers evaluate_inner gets for material m (1-indexed samples)
MatDensity(m) ==
    IF hist.path[m] = "sparse"
    THEN PackIJ(m, app.num_qpts, NumElemsForMat(m), OffsetCurr(m),
                tens.sparse_elem_indices, tens.density)
    ELSE tens.density[m]

MatEnergy(m) ==
    IF hist.path[m] = "sparse"
    THEN PackIJ(m, app.num_qpts, NumElemsForMat(m), OffsetCurr(m),
                tens.sparse_elem_indices, tens.energy)
    ELSE tens.energy[m]

\* the samples of material m whose partition has passed the store step
PastStore(m) ==
    IF Finished(m) THEN 1..hist.ndata[m]
    ELSE IF m = ev.mat_idx /\ (InnerRunning \/ InnerReturned)
    THEN {i \in 1..inr.num_data :
            \/ i <= inr.pId
            \/ /\ pc \in {"unpack", "release"}
               /\ i <= inr.pId + inr.elements}
    ELSE {}

\* the physics-fallback samples among them: those with P false
FallbackPastStore(m) == {i \in PastStore(m) : ~hist.pred[m][i]}

\* the record of sample i of material m: energy, density, the four physics
\* outputs
RecordOf(m, i) ==
    <<MatEnergy(m)[i], MatDensity(m)[i]>>
        \o [f \in 1..NumOutputs |-> Phys(f, MatEnergy(m)[i], MatDensity(m)[i])]

RECURSIVE FallbackCount(_)
\* number of physics-fallback samples past the store in materials 0..m
FallbackCount(m) ==
    IF m < 0 THEN 0
    ELSE Cardinality(FallbackPastStore(m)) + FallbackCount(m - 1)

\* C13: with the store enabled, as long as no collaborator has failed, the
\* records appended so far are exactly one record (inputs and physics
\* outputs) for each sample with P false of each partition that has passed
\* the store step; at the end of evaluate their number is the sum over
\* materials and partitions of the count of P = false.
C13_StoreVolume ==
    (EnableDB /\ pc \notin {"error", "fault"}) =>
        /\ hist.stored = FallbackCount(app.num_mats - 1)
        /\ hist.records =
              UNION {{RecordOf(m, i) : i \in FallbackPastStore(m)} : m \in Mats}

\* C13 witness: evaluate has returned after storing records from two
\* partitions of a material in which the predicate accepted another sample
C13_Witness ==
    /\ pc = "done"
    /\ hist.stored >= 2
    /\ \E m \in Mats :
          /\ hist.ndata[m] = 3
          /\ hist.pred[m] = <<FALSE, TRUE, FALSE>>
          /\ "store" \in hist.calls[m]
    /\ computePartitionSize(NumInputs, NumOutputs, TRUE, partitionSize) = 2

\* the driver's calls that have thrown
PackFailed == ph.pc \in {"error1", "error2", "error3", "error"}

\* C14: a call of pack or unpack, either variant, with sparse and dense
\* feature vectors of different lengths throws, and it leaves every element
\* of the dense, sparse and sparse_indices buffers as it was and gives no
\* packed count; with equal lengths no call throws.
C14_MismatchNoPartialWrites ==
    /\ (ph.pc \notin {"idle", "start"}) =>
          (PackFailed <=> Len(ph.sparse) # Len(ph.dense1))
    /\ PackFailed =>
          /\ ph.dense1 = FreshOf(Len(ph.dense1), ph.n) /\ ph.np1 = 0
          /\ ph.out1 = ph.target
          /\ ph.dense2 = FreshOf(Len(ph.dense2), ph.n) /\ ph.np2 = 0
          /\ ph.idx = [i \in 1..ph.n |-> Uninit]
          /\ ph.out2 = ph.target

\* C14 witness: all four calls have thrown on buffers of 2 sparse and 1
\* dense features, with a predicate that selects samples
C14_Witness ==
    /\ ph.pc = "error"
    /\ Len(ph.sparse) = 2 /\ Len(ph.dense1) = 1
    /\ ph.n = 2 /\ \E i \in 1..ph.n : ph.P[i] = ph.denseVal

\* sample i (sequence index) lies in the partition evaluate_inner is in
InPartition(i) == inr.pId < i /\ i <= inr.pId + inr.elements

\* the partition of sample i has been unpacked
Unpacked(i) == i <= inr.pId \/ (pc = "release" /\ InPartition(i))

\* the partition of sample i is between its surrogate step and its unpack
BeforeUnpack(i) == pc \in {"pack", "physics", "unpack"} /\ InPartition(i)

\* C15: in every partition the surrogate writes the caller's output range
\* before the physics unpack does: between the two steps every cell of the
\* range holds the surrogate's value, after the unpack the cells with P
\* false were last written by the unpack and hold the physics value, the
\* cells with P true still hold the surrogate's value, and no cell the
\* unpack has written is written by a surrogate later.
C15_SurrogateBeforeUnpack ==
    InnerRunning =>
        \A i \in InnerSamples :
            LET hasSurrogate == app.surrogates[inr.mat_idx]
                surrogateValue ==
                    \A f \in 1..NumOutputs :
                        pOutputs[f][i] = Surr(f, pDensity[i], pEnergy[i])
                physicsValue ==
                    \A f \in 1..NumOutputs :
                        pOutputs[f][i] = Phys(f, pEnergy[i], pDensity[i])
            IN  IF Unpacked(i)
                THEN IF ~inr.p_ml_acceptable[i]
                     THEN inr.last[i] = "physics" /\ physicsValue
                     ELSE IF hasSurrogate
                          THEN inr.last[i] = "surrogate" /\ surrogateValue
                          ELSE inr.last[i] = "none"
                ELSE IF BeforeUnpack(i)
                THEN IF hasSurrogate
                     THEN inr.last[i] = "surrogate" /\ surrogateValue
                     ELSE inr.last[i] = "none"
                ELSE inr.last[i] = "none"

\* C15 witness: the second partition of a call with a surrogate has just
\* been unpacked; the unpack replaced the surrogate's value at a rejected
\* sample of it and left an accepted one
C15_Witness ==
    /\ pc = "release"
    /\ app.surrogates[inr.mat_idx]
    /\ inr.num_data = 4 /\ inr.pId = 2 /\ inr.elements = 2
    /\ inr.p_ml_acceptable[3] /\ ~inr.p_ml_acceptable[4]
    /\ inr.last[3] = "surrogate" /\ inr.last[4] = "physics"

\* C16 as claimed: the physics evaluator is never invoked with a packed
\* count of 0.
C16_PhysicsOnlyIfPacked == \A m \in Mats : 0 \notin hist.eos_k[m]

\* the samples of the current partition with P false
RejectedInPartition ==
    {i \in InnerSamples : InPartition(i) /\ ~inr.p_ml_acceptable[i]}

\* C16 amended: in every partition that gets past the physics step the
\* physics evaluator has been invoked, with the packed count k = the number
\* of samples of the partition with P false, k = 0 included.
C16_PhysicsCalledEveryPartition ==
    pc \in {"unpack", "release"} =>
        /\ inr.packedElements = Cardinality(RejectedInPartition)
        /\ "eos" \in hist.calls[inr.mat_idx]
        /\ inr.packedElements \in hist.eos_k[inr.mat_idx]

\* C16 witness: a partition of two samples, both with P true, for which the
\* physics evaluator has been invoked with a packed count of 0
C16_Witness ==
    /\ pc = "unpack"
    /\ inr.elements = 2 /\ inr.pId = 0
    /\ inr.p_ml_acceptable[1] /\ inr.p_ml_acceptable[2]
    /\ inr.packedElements = 0
    /\ hist.eos_k[inr.mat_idx] = {0}

\* the test of the sparse path for material m, as the claim states it
SparseCondition(m) ==
    app.is_cpu /\ app.pack_sparse_mats /\ NumElemsForMat(m) < app.num_elems

\* C17: a material with E_m > 0 that evaluate has reached is taken on the
\* sparse path if and only if is_cpu and pack_sparse_mats and E_m < E; on
\* the sparse path evaluate_inner is called once on the dense buffers with
\* N = E_m * Q, on the other path once on the material's slices of the
\* tensors with N = E * Q.
C17_PathSelection ==
    \A m \in Mats :
        NumElemsForMat(m) > 0 =>
            /\ Finished(m) => hist.path[m] \in {"sparse", "dense"}
            /\ hist.path[m] \in {"none", "sparse", "dense"}
            /\ hist.path[m] = "none" => hist.ncalls[m] = 0
            /\ hist.path[m] = "sparse" =>
                  /\ SparseCondition(m)
                  /\ hist.ncalls[m] = 1
                  /\ hist.ndata[m] = NumElemsForMat(m) * app.num_qpts
                  /\ (m = ev.mat_idx /\ pc # "mat_loop") => ev.sparse
            /\ hist.path[m] = "dense" =>
                  /\ ~SparseCondition(m)
                  /\ hist.ncalls[m] = 1
                  /\ hist.ndata[m] = app.num_elems * app.num_qpts
                  /\ (m = ev.mat_idx /\ pc # "mat_loop") => ~ev.sparse

\* C17 witness: with is_cpu and pack_sparse_mats set, evaluate has returned
\* after taking material 0 (one of two elements active) on the sparse path
\* and material 1 (both elements active) on the other
C17_Witness ==
    /\ pc = "done"
    /\ app.is_cpu /\ app.pack_sparse_mats
    /\ app.num_mats = 2 /\ app.num_elems = 2
    /\ NumElemsForMat(0) = 1 /\ hist.path[0] = "sparse"
    /\ NumElemsForMat(1) = 2 /\ hist.path[1] = "dense"

\* the partition starts 0, part, 2 * part, ... below bound
StartsBelow(part, bound) ==
    {s \in 0..(bound - 1) : s % part = 0}

\* the samples (sequence indices) a partition has been begun for
Begun ==
    {i \in InnerSamples :
        \/ i <= inr.pId
        \/ pc # "part_head" /\ InPartition(i)}

\* C18: for a partition size part >= 1 the loop visits pId = 0, part,
\* 2 * part, ... < N, every partition has len = min(part, N - pId) >= 1 and
\* packed buffers of len cells, no sample lies in two partitions, and at the
\* end of the loop every sample of [0, N) lies in one.
C18_PartitionsTile ==
    ((InnerRunning \/ InnerReturned) /\ inr.partitionElements >= 1) =>
        LET part == inr.partitionElements
            N == inr.num_data
        IN  /\ inr.pId % part = 0
            /\ inr.starts = StartsBelow(part,
                               IF pc = "part_head" \/ InnerReturned
                               THEN Min(inr.pId, N) ELSE inr.pId + 1)
            /\ \A i \in InnerSamples :
                  inr.cover[i] = IF i \in Begun THEN 1 ELSE 0
            /\ InnerReturned => \A i \in InnerSamples : inr.cover[i] = 1
            /\ (InnerRunning /\ pc # "part_head") =>
                  /\ inr.pId < N
                  /\ inr.elements = Min(part, N - inr.pId)
                  /\ inr.elements >= 1
                  /\ \A d \in 1..NumInputs :
                        Len(inr.packed_inputs[d]) = inr.elements
                  /\ \A f \in 1..NumOutputs :
                        Len(inr.packed_outputs[f]) = inr.elements

\* C18 witness: the tail partition of a call with N = 3 and part = 2: it
\* starts at 2 and its buffers have one cell
C18_Witness ==
    /\ pc = "release"
    /\ inr.num_data = 3 /\ inr.partitionElements = 2
    /\ inr.pId = 2 /\ inr.elements = 1
    /\ inr.starts = {0, 2}
    /\ Len(inr.packed_outputs[1]) = 1

\* bytes of one sample: sizeof(V) * (n_in + n_out), plus sizeof(int) with
\* the re-index vector
BytesPerSample ==
    SizeofTypeValue * (ph.numIFeatures + ph.numOFeatures)
        + (IF ph.includeReIndex THEN SizeofInt ELSE 0)

\* C19: for a budget >= 0 and n_in + n_out >= 1 computePartitionSize
\* returns floor(budget / bytes of one sample): the largest r with
\* r * bytes <= budget; it returns 0 when the budget is below the bytes of
\* one sample.
C19_PartitionSizeFloor ==
    (ph.pc = "returned" /\ ph.numIFeatures + ph.numOFeatures >= 1) =>
        /\ ph.ret >= 0
        /\ ph.ret * BytesPerSample <= ph.pSize
        /\ ph.pSize < (ph.ret + 1) * BytesPerSample
        /\ ph.pSize < BytesPerSample => ph.ret = 0

\* C19 witness: a call with 2 + 2 features, the re-index vector and a
\* budget of 40 bytes has returned 1
C19_Witness ==
    /\ ph.pc = "returned"
    /\ ph.numIFeatures = 2 /\ ph.numOFeatures = 2 /\ ph.includeReIndex
    /\ ph.pSize = 40 /\ ph.ret = 1

\* C20 as claimed: every iteration of the partition loop of evaluate_inner
\* strictly increases pId (so the loop ends after finitely many
\* partitions), whatever computePartitionSize(2, 4) returned, 0 included.
C20_PIdStrictlyIncreases ==
    [][(pc = "release" /\ pc' = "part_head") => inr'.pId > inr.pId]_vars

\* the material of the current call has a UQ cache and no surrogate
UQWithoutSurrogate ==
    app.hdcaches[inr.mat_idx] /\ ~app.surrogates[inr.mat_idx]

\* C21: when the material has a UQ cache but no surrogate, evaluate_inner
\* never writes the output positions the UQ cache accepted: throughout the
\* call and at its return no write has reached them and all four output
\* buffers hold there the values they held when the call was made, while at
\* the return the rejected positions hold the physics output.
C21_AcceptedUntouchedWithoutSurrogate ==
    ((InnerRunning \/ InnerReturned) /\ UQWithoutSurrogate) =>
        \A i \in InnerSamples :
            IF inr.p_ml_acceptable[i]
            THEN /\ inr.last[i] = "none"
                 /\ \A f \in 1..NumOutputs :
                        pOutputs[f][i] = inr.outs_at_entry[f][i]
            ELSE InnerReturned =>
                    \A f \in 1..NumOutputs :
                        pOutputs[f][i] = Phys(f, pEnergy[i], pDensity[i])

\* C21 witness: a return on the material's own tensors after two partitions
\* (2 + 1 samples) with a UQ cache and no surrogate; the cache accepted the
\* first and last sample, which keep their prior values, and the physics
\* output replaced the prior value of the second
C21_Witness ==
    /\ InnerReturned
    /\ UQWithoutSurrogate
    /\ ~ev.sparse
    /\ inr.num_data = 3 /\ inr.partitionElements = 2
    /\ inr.p_ml_acceptable = <<TRUE, FALSE, TRUE>>
    /\ inr.last = <<"none", "physics", "none">>
    /\ pOutputs[1][1] = inr.outs_at_entry[1][1]
    /\ pOutputs[1][2] = Phys(1, pEnergy[2], pDensity[2])
    /\ pOutputs[1][2] # inr.outs_at_entry[1][2]

(***************************************************************************)
(* MiniApp::evaluate_orig, called with the arguments the evaluate call was *)
(* given (the input tensors, the index table and output tensors holding    *)
(* what they held then) once evaluate has returned.  The collaborators are *)
(* deterministic: the UQ cache returns for a material the flags it         *)
(* returned to evaluate on the same dense inputs, and the steps are those  *)
(* of a call in which every collaborator returns.                          *)
(***************************************************************************)
\* the garbage an array that is allocated and not initialised can hold
Garbage == {Uninit, Uninit - 1}

\* contents of mfem::Array<double>(n): the memory is not initialised
ArrayContents(n) == {[i \in 1..n |-> g] : g \in Garbage}

\* the output tensors as they are when the call is made
OutputsAtCall ==
    [f \in 1..NumOutputs |->
        [m \in Mats |-> [pos \in 1..(app.num_elems * app.num_qpts) |->
                            PriorAt(f, m, pos)]]]

\* dense_ml_acceptable = false, then, if hdcaches[mat_idx] != nullptr,
\* hdcaches[mat_idx]->evaluate(num_data, {pDensity, pEnergy}, pMl_acceptable)
OrigPredicate(mat_idx, num_data) ==
    IF app.hdcaches[mat_idx]
    THEN hist.pred[mat_idx]
    ELSE [i \in 1..num_data |-> FALSE]

\* one iteration of the partition loop of evaluate_orig on the dense output
\* arrays: surrogate, pack with reIndex, EOS, unpack through reIndex
OrigPartitionStep(mat_idx, num_data, partitionElements, pId, p_ml_acceptable, pDens, pEner, outs) ==
    LET elements == ElementsOf(partitionElements, num_data, pId)
        surr == IF app.surrogates[mat_idx]
                THEN SurrogateStep(pId, elements, pDens, pEner, outs)
                ELSE outs
        pk == PackIdx(PredicateOf(p_ml_acceptable, pId), Fresh(elements),
                      elements, SparseInputs(pDens, pEner, pId),
                      [d \in 1..NumInputs |-> Fresh(elements)], FALSE)
        po == PhysicsStep(pk.npacked, pk.dense,
                          [f \in 1..NumOutputs |-> Fresh(elements)])
        up == UnpackIdx(pk.sparse_indices, pk.npacked, po,
                        SparseOutputs(surr, pId), FALSE)
    IN  [err |-> pk.err \/ up.err, outs |-> WrittenBack(surr, pId, up.sparse)]

\* the call evaluate_orig(density, energy, sparse_elem_indices, ...)
OrigCall ==
    /\ pc = "done"
    /\ orig.pc = "idle"
    /\ orig' = [IdleOrig EXCEPT !.pc = "mat_loop", !.out = OutputsAtCall]
    /\ UNCHANGED <<ph, app, partitionSize, tens, pc, ev, inr, live, hist>>

\* if (num_elems_for_mat == 0) continue;
OrigMatSkip ==
    /\ orig.pc = "mat_loop"
    /\ orig.mat_idx < app.num_mats
    /\ SkipMaterial(NumElemsForMat(orig.mat_idx))
    /\ orig' = [orig EXCEPT !.mat_idx = @ + 1]
    /\ UNCHANGED <<ph, app, partitionSize, tens, pc, ev, inr, live, hist>>

\* sparse path: the dense arrays, pack_ij, the UQ cache, computePartitionSize
OrigMatSparse ==
    /\ orig.pc = "mat_loop"
    /\ orig.mat_idx < app.num_mats
    /\ LET m == orig.mat_idx
           nem == NumElemsForMat(m)
           off == OffsetCurr(m)
           N == nem * app.num_qpts
       IN  /\ ~SkipMaterial(nem)
           /\ UseSparsePacking(nem)
           /\ \E contents \in ArrayContents(N) :
                orig' = [orig EXCEPT
                    !.pc = "part_head",
                    !.offset_curr = off,
                    !.num_elems_for_mat = nem,
                    !.dense_in = <<PackIJ(m, app.num_qpts, nem, off,
                                          tens.sparse_elem_indices, tens.density),
                                   PackIJ(m, app.num_qpts, nem, off,
                                          tens.sparse_elem_indices, tens.energy)>>,
                    !.dense_out = [f \in 1..NumOutputs |-> contents],
                    !.dense_ml_acceptable = OrigPredicate(m, N),
                    !.partitionElements =
                        computePartitionSize(NumInputs, NumOutputs, TRUE,
                                             partitionSize),
                    !.pId = 0]
    /\ UNCHANGED <<ph, app, partitionSize, tens, pc, ev, inr, live, hist>>

\* one iteration of for (pId < num_elems_for_mat * num_qpts): the partition
\* is evaluated on the dense arrays, then unpack_ij scatters the dense
\* arrays into the output tensors; pId += partitionElements
OrigPartition ==
    /\ orig.pc = "part_head"
    /\ LET m == orig.mat_idx
           N == orig.num_elems_for_mat * app.num_qpts
           r == OrigPartitionStep(m, N, orig.partitionElements, orig.pId,
                                  orig.dense_ml_acceptable, orig.dense_in[1],
                                  orig.dense_in[2], orig.dense_out)
       IN  /\ orig.pId < N
           /\ ~r.err
           /\ orig' = [orig EXCEPT
                  !.dense_out = r.outs,
                  !.out = [f \in 1..NumOutputs |->
                              UnpackIJ(m, app.num_qpts, orig.num_elems_for_mat,
                                       orig.offset_curr, tens.sparse_elem_indices,
                                       r.outs[f], orig.out[f])],
                  !.pId = @ + orig.partitionElements]
    /\ UNCHANGED <<ph, app, partitionSize, tens, pc, ev, inr, live, hist>>

\* the partition loop ends: next material
OrigMatNext ==
    /\ orig.pc = "part_head"
    /\ orig.pId >= orig.num_elems_for_mat * app.num_qpts
    /\ orig' = [orig EXCEPT !.pc = "mat_loop", !.mat_idx = @ + 1,
                            !.dense_in = <<>>, !.dense_out = <<>>,
                            !.dense_ml_acceptable = <<>>, !.pId = 0]
    /\ UNCHANGED <<ph, app, partitionSize, tens, pc, ev, inr, live, hist>>

\* dense path: the surrogate, if there is one, on the first
\* num_elems_for_mat * num_qpts samples of the material's slice, then
\* eoses[mat_idx]->Eval(num_elems * num_qpts, density, energy, ...) on the
\* whole slice
OrigMatDense ==
    /\ orig.pc = "mat_loop"
    /\ orig.mat_idx < app.num_mats
    /\ LET m == orig.mat_idx
           nem == NumElemsForMat(m)
           slice == [f \in 1..NumOutputs |-> orig.out[f][m]]
           surr == IF app.surrogates[m]
                   THEN SurrogateEval(nem * app.num_qpts,
                                      <<tens.density[m], tens.energy[m]>>, slice)
                   ELSE slice
           phys == EOSEval(app.num_elems * app.num_qpts, tens.density[m],
                           tens.energy[m], surr)
       IN  /\ ~SkipMaterial(nem)
           /\ ~UseSparsePacking(nem)
           /\ orig' = [orig EXCEPT
                  !.mat_idx = @ + 1,
                  !.out = [f \in 1..NumOutputs |->
                              [orig.out[f] EXCEPT ![m] = phys[f]]]]
    /\ UNCHANGED <<ph, app, partitionSize, tens, pc, ev, inr, live, hist>>

\* for (mat_idx < num_mats) fails: evaluate_orig returns
OrigReturn ==
    /\ orig.pc = "mat_loop"
    /\ orig.mat_idx >= app.num_mats
    /\ orig' = [orig EXCEPT !.pc = "returned"]
    /\ UNCHANGED <<ph, app, partitionSize, tens, pc, ev, inr, live, hist>>

\* an evaluate call, then an evaluate_orig call with the same arguments
NextOrig ==
    \/ Next
    \/ OrigCall \/ OrigMatSkip \/ OrigMatSparse \/ OrigPartition
    \/ OrigMatNext \/ OrigMatDense \/ OrigReturn

SpecOrig == Init /\ [][NextOrig]_vars

\* evaluate and evaluate_orig have both returned
BothReturned == pc = "done" /\ orig.pc = "returned"

\* the materials evaluate took on the sparse path with a UQ cache present
SparseWithUQ == {m \in Mats : hist.path[m] = "sparse" /\ app.hdcaches[m]}

\* C22 as claimed: for a material taken on the sparse path with a UQ cache
\* present, evaluate_orig and evaluate leave identical values in the four
\* output tensors once they have returned.
C22_OrigEqualsEvaluate ==
    BothReturned =>
        \A m \in SparseWithUQ : \A f \in 1..NumOutputs :
            orig.out[f][m] = tens.out[f][m]

\* the cells of the material's output tensors either function left with
\* garbage of a dense array hold garbage after the other too, and every
\* other cell holds the same value after both
OrigAgreesWhereDetermined ==
    BothReturned =>
        \A m \in SparseWithUQ : \A f \in 1..NumOutputs :
            \A pos \in DOMAIN tens.out[f][m] :
                IF tens.out[f][m][pos] \in Garbage
                THEN orig.out[f][m][pos] \in Garbage
                ELSE orig.out[f][m][pos] = tens.out[f][m][pos]

=============================================================================
